---- MODULE Spec2Model ----
(***************************************************************************)
(* Model of the document pipeline: the batch loop of main.py (select the   *)
(* unprocessed rows, strip markup from four text columns, append to the    *)
(* processed table) and the schema reconciler of utils/table_update.py.    *)
(***************************************************************************)
EXTENDS Bags, FiniteSets, Integers, Sequences, TLC

(***************************************************************************)
(* Bounds of the model.                                                    *)
(***************************************************************************)
\* number of rows of raw_documents, at most
MaxRows == 4
\* the batch limit; main.py:56 passes limit=100, scaled down here
Limit == 2
\* pipeline invocations per process slot
MaxRuns == 3
\* reconcile calls on one TableUpdater
MaxReconciles == 2
\* raw rows when two process slots run the pipeline
MaxRowsC == 1
\* raw rows of the runs checked for termination
MaxRowsT == 3
\* rows passed to one bulk_insert_data call, at most
MaxData == 2
\* bulk_insert_data calls
MaxUpserts == 2
\* tokens of a string handed to remove_tags, at most
MaxHtmlLen == 3

(***************************************************************************)
(* Text values.  A cell of a text column is None, an object that is not    *)
(* text (a float NaN, a number), or a string.  A string is a sequence of   *)
(* tokens: tags, the blank " ", and words.  Raised stands for an exception *)
(* in flight instead of a value.                                           *)
(***************************************************************************)
Raised == [k |-> "raised", s |-> <<>>]

None == [k |-> "none", s |-> <<>>]

NonText == [k |-> "obj", s |-> <<>>]

Str(s) == [k |-> "str", s |-> s]

OpenTags == {"<p>", "<b>", "<script>", "<style>"}

CloseTags == {"</p>", "</b>", "</script>", "</style>"}

IsTag(t) == t \in OpenTags \cup CloseTags

\* the end tag that closes a script or style element
CloserOf(t) == IF t = "<script>" THEN "</script>" ELSE "</style>"

\* soup(['style','script']) + decompose(): the tokens of s that lie outside
\* every style and script element.  skip is the end tag awaited, or "".
RECURSIVE Decompose(_, _)
Decompose(s, skip) ==
    IF s = <<>> THEN <<>>
    ELSE IF skip # "" THEN
        Decompose(Tail(s), IF Head(s) = skip THEN "" ELSE skip)
    ELSE IF Head(s) \in {"<script>", "<style>"} THEN
        Decompose(Tail(s), CloserOf(Head(s)))
    ELSE <<Head(s)>> \o Decompose(Tail(s), "")

\* the text nodes left in the tree: the maximal runs of non-tag tokens
RECURSIVE TextNodes(_, _)
TextNodes(s, cur) ==
    IF s = <<>> THEN (IF cur = <<>> THEN <<>> ELSE <<cur>>)
    ELSE IF IsTag(Head(s)) THEN
        (IF cur = <<>> THEN <<>> ELSE <<cur>>) \o TextNodes(Tail(s), <<>>)
    ELSE TextNodes(Tail(s), Append(cur, Head(s)))

RECURSIVE LStrip(_)
LStrip(n) == IF n # <<>> /\ Head(n) = " " THEN LStrip(Tail(n)) ELSE n

RECURSIVE RStrip(_)
RStrip(n) ==
    IF n # <<>> /\ n[Len(n)] = " " THEN RStrip(SubSeq(n, 1, Len(n) - 1)) ELSE n

\* str.strip() of one text node
Strip(n) == RStrip(LStrip(n))

\* soup.stripped_strings: the stripped text nodes that are not empty
RECURSIVE StrippedStrings(_)
StrippedStrings(nodes) ==
    IF nodes = <<>> THEN <<>>
    ELSE (IF Strip(Head(nodes)) = <<>> THEN <<>> ELSE <<Strip(Head(nodes))>>)
         \o StrippedStrings(Tail(nodes))

\* ' '.join(strings)
RECURSIVE JoinSpace(_)
JoinSpace(strings) ==
    IF strings = <<>> THEN <<>>
    ELSE IF Len(strings) = 1 THEN Head(strings)
    ELSE Head(strings) \o <<" ">> \o JoinSpace(Tail(strings))

\* BeautifulSoup(html, "html.parser"), main.py:17: the parser takes any
\* string, well formed or not, and raises TypeError on what is not a string
Soup(html) == IF html.k = "str" THEN html ELSE Raised

\* main.py:17-22 without the try and without the test for None
remove_tags_unguarded(html) ==
    IF Soup(html) = Raised THEN Raised
    ELSE Str(JoinSpace(StrippedStrings(TextNodes(Decompose(html.s, ""), <<>>))))

\* remove_tags(html), main.py:13-25
remove_tags(html) ==
    IF html.k = "none" THEN Str(<<>>)
    ELSE IF Soup(html) = Raised THEN html
    ELSE Str(JoinSpace(StrippedStrings(TextNodes(Decompose(html.s, ""), <<>>))))

\* the tokens of the strings the model hands to remove_tags
HtmlTokens == {"<p>", "</p>", "<script>", "</script>", "<style>", " ", "Hello"}

RECURSIVE SeqsUpTo(_, _)
SeqsUpTo(S, n) ==
    IF n = 0 THEN {<<>>}
    ELSE SeqsUpTo(S, n - 1) \cup
         {Append(q, x) : q \in {r \in SeqsUpTo(S, n - 1) : Len(r) = n - 1}, x \in S}

\* the values the model hands to remove_tags
HtmlInputs == {None, NonText} \cup {Str(q) : q \in SeqsUpTo(HtmlTokens, MaxHtmlLen)}

(***************************************************************************)
(* Tables of the pipeline.                                                 *)
(***************************************************************************)
columns_to_clean == <<"abstract_de", "abstract_it", "abstract_fr", "content">>

Row(id, de, it, fr, content) ==
    [id |-> id, abstract_de |-> de, abstract_it |-> it, abstract_fr |-> fr,
     content |-> content]

\* the rows raw_documents can hold; ids are unique (the identity key)
RawRow(i) ==
    CASE i = 1 -> Row(1, Str(<<"<p>", "Hello", " ", "<b>", "World", "</b>", "</p>">>),
                      Str(<<"Hello">>), NonText,
                      Str(<<"<script>", "x()", "</script>", "Hello">>))
      [] i = 2 -> Row(2, None, Str(<<"World">>), Str(<<"Hello", " ", "World">>),
                      Str(<<"<style>", "x()", "</style>">>))
      [] i = 3 -> Row(3, Str(<<"Hello">>), NonText, Str(<<"World">>),
                      Str(<<" ", "<b>", "Hello", "</b>", " ">>))
      [] OTHER -> Row(i, NonText, Str(<<"World">>), Str(<<"Hello">>), None)

Workers == {1, 2}

Ids(rows) == {r.id : r \in rows}

\* the rows of a bag (a table is a multiset of rows)
RowsOf(table) == BagToSet(table)

\* the SELECT of main.py:29-36 when it succeeds: every result the database
\* may give, LIMIT rows (or all, if fewer) of raw with no processed row of
\* the same id.  No ORDER BY: which rows is the database's choice.
NoFilterSelect(raw_table, processed_table, limit) ==
    {B \in SUBSET raw_table :
        Cardinality(B) = IF Cardinality(raw_table) < limit
                         THEN Cardinality(raw_table) ELSE limit}

OverLimitSelect(raw_table, processed_table, limit) ==
    LET U == {r \in raw_table : r.id \notin Ids(RowsOf(processed_table))}
    IN {B \in SUBSET U :
        Cardinality(B) = IF Cardinality(U) < limit + 1
                         THEN Cardinality(U) ELSE limit + 1}

download_table_to_df(raw_table, processed_table, limit) ==
    LET U == {r \in raw_table : r.id \notin Ids(RowsOf(processed_table))}
    IN {B \in SUBSET U :
        Cardinality(B) = IF Cardinality(U) < limit THEN Cardinality(U) ELSE limit}

\* df[column] = df[column].apply(remove_tags), main.py:65
ApplyColumn(frame, column) ==
    {[r EXCEPT ![column] = remove_tags(r[column])] : r \in frame}

\* the handler of main.py:67-69
ForgetColumnError(errs, column) == errs

ColumnError(errs, column) == Append(errs, column)

\* df.to_sql(..., if_exists='append'), main.py:71-76: one INSERT of the whole
\* frame (at most Limit rows, chunksize 2000) in one transaction
\* if_exists='replace' in place of 'append'
ReplaceToSql(processed_table, frame) == SetToBag(frame)

\* an insert that leaves out the rows whose id is stored
SkipStoredIds(processed_table, frame) ==
    processed_table (+)
    SetToBag({r \in frame : r.id \notin Ids(RowsOf(processed_table))})

to_sql(processed_table, frame) == processed_table (+) SetToBag(frame)

\* what a failed to_sql leaves behind: the transaction is rolled back
HalfWritten(processed_table, frame) ==
    processed_table (+) SetToBag({CHOOSE r \in frame : TRUE})

to_sql_failed(processed_table, frame) == processed_table

\* processed_count += len(df), main.py:57
CountFetched(count, frame) == count + Cardinality(frame)

(***************************************************************************)
(* The schema reconciler, utils/table_update.py.                           *)
(***************************************************************************)
\* the names bound in the module's namespace, table_update.py:1-9
ModuleGlobals ==
    {"yaml", "create_engine", "MetaData", "Table", "Column", "ForeignKey",
     "BigInteger", "Boolean", "CHAR", "Date", "DateTime", "Float", "Integer",
     "LargeBinary", "Numeric", "SmallInteger", "String", "Text", "Time",
     "TIMESTAMP", "VARBINARY", "VARCHAR", "insert", "NoSuchTableError"}

\* a name evaluates, instead of raising NameError
Bound(name) == name \in ModuleGlobals

\* table_update.py:35-52
type_mapping ==
    {"BigInteger", "Boolean", "CHAR", "Date", "DateTime", "Float", "Integer",
     "LargeBinary", "Numeric", "SmallInteger", "String", "Text", "Time",
     "TIMESTAMP", "VARBINARY", "VARCHAR"}

TableNames == {"docs", "chunks"}

\* one column definition of the YAML file; foreign_key "" is an absent key
ColumnSpec(name, type, pk, fk, tz) ==
    [name |-> name, type |-> type, primary_key |-> pk, foreign_key |-> fk,
     timezone |-> tz]

DocsSpec ==
    [name |-> "docs",
     columns |-> <<ColumnSpec("a", "Integer", TRUE, "", FALSE),
                   ColumnSpec("b", "Text", FALSE, "", FALSE),
                   ColumnSpec("c", "DateTime", FALSE, "", TRUE)>>]

ChunksSpec ==
    [name |-> "chunks",
     columns |-> <<ColumnSpec("id", "Integer", TRUE, "", FALSE),
                   ColumnSpec("doc_id", "Integer", TRUE, "docs.a", FALSE)>>]

\* the schema files the model loads
Catalogs == {<<>>, <<DocsSpec>>, <<ChunksSpec>>, <<DocsSpec, ChunksSpec>>,
             <<ChunksSpec, DocsSpec>>}

\* the concrete type of a column: the mapped type and its timezone flag
ColType(col) == <<col.type, col.timezone>>

\* table_update.py:76-82: the Column built from one definition
BuildColumn(col) ==
    [name |-> col.name,
     type |-> ColType(col),
     primary_key |-> IF col.foreign_key # "" THEN FALSE ELSE col.primary_key,
     foreign_key |-> col.foreign_key]

\* table_update.py:73-82
BuildColumns(cols) == [i \in DOMAIN cols |-> BuildColumn(cols[i])]

ColNames(cols) == {cols[i].name : i \in DOMAIN cols}

\* Table(name, metadata, *columns, extend_existing=True), table_update.py:84:
\* the columns of an earlier Table of that name stay, those named again are
\* replaced
ExtendExisting(old, new) ==
    SelectSeq(old, LAMBDA c : c.name \notin ColNames(new)) \o new

\* a registration that is put off until the table is created
RegisterNothing(registry, name, cols) == registry

\* self.tables[table_name] = table, table_update.py:85
Register(registry, name, cols) ==
    [n \in DOMAIN registry \cup {name} |->
        IF n = name
        THEN (IF name \in DOMAIN registry
              THEN ExtendExisting(registry[name], cols) ELSE cols)
        ELSE registry[n]]

\* the live columns of a table, as name and type
LiveCols(cols) == {<<cols[i].name, cols[i].type>> : i \in DOMAIN cols}

\* the primary key the CREATE TABLE declares
PkOf(cols) == {cols[i].name : i \in {j \in DOMAIN cols : cols[j].primary_key}}

NoTable == [exists |-> FALSE, cols |-> {}, pk |-> {}, rows |-> EmptyBag]

\* table.create(conn, checkfirst=True) + commit, table_update.py:89-90
DropAndCreate(db, name, cols) ==
    [db EXCEPT ![name] = [exists |-> TRUE, cols |-> LiveCols(cols),
                          pk |-> PkOf(cols), rows |-> EmptyBag]]

CreateTable(db, name, cols) ==
    IF db[name].exists THEN db
    ELSE [db EXCEPT ![name] = [exists |-> TRUE, cols |-> LiveCols(cols),
                               pk |-> PkOf(cols), rows |-> EmptyBag]]

\* insp.get_columns(table_name), table_update.py:99
ExistingColumns(db, name) == {c[1] : c \in db[name].cols}

\* the columns the loop of table_update.py:102-103 finds missing
MissingColumns(db, name, cols) ==
    {i \in DOMAIN cols : cols[i].name \notin ExistingColumns(db, name)}

\* ALTER TABLE ... ADD COLUMN for the columns at the indices in added, each
\* committed, table_update.py:104-109
AddColumns(db, name, cols, added) ==
    [db EXCEPT ![name].cols = @ \cup {<<cols[i].name, cols[i].type>> : i \in added}]

(***************************************************************************)
(* bulk_insert_data, table_update.py:116-139.                              *)
(***************************************************************************)
Null == "NULL"

\* the dicts the callers pass; every one carries the key a
Items == {[a |-> "1", b |-> "x"], [a |-> "1", b |-> "y"], [a |-> "2"]}

\* table_name in self.tables, table_update.py:127
AlwaysRegistered(registry, name) == TRUE

Registered(registry, name) == name \in DOMAIN registry

\* table_update.py:136: item.get(col, None) for every column of the Table
CompleteItem(cols, item) ==
    [c \in ColNames(cols) |-> IF c \in DOMAIN item THEN item[c] ELSE Null]

\* the row the database stores for the values of an INSERT
StoredRow(db, name, values) ==
    [c \in ExistingColumns(db, name) |->
        IF c \in DOMAIN values THEN values[c] ELSE Null]

\* the rows of the table that hold the key of row
Conflicting(t, row) ==
    IF t.pk = {} THEN {}
    ELSE {r \in BagToSet(t.rows) : \A k \in t.pk : r[k] = row[k]}

\* a conflict handler that overwrites the stored row
InsertOrUpdate(db, name, cols, item) ==
    LET values == CompleteItem(cols, item)
        row == StoredRow(db, name, values)
    IN IF ~db[name].exists \/ ~(DOMAIN values \subseteq ExistingColumns(db, name))
       THEN [error |-> "ProgrammingError", db |-> db]
       ELSE IF \E k \in db[name].pk : row[k] = Null
       THEN [error |-> "IntegrityError", db |-> db]
       ELSE IF Conflicting(db[name], row) # {}
       THEN [error |-> "",
             db |-> [db EXCEPT ![name].rows =
                        (@ (-) SetToBag(Conflicting(db[name], row)))
                        (+) SetToBag({row})]]
       ELSE [error |-> "", db |-> [db EXCEPT ![name].rows = @ (+) SetToBag({row})]]

\* insert(table).values(**complete_item).on_conflict_do_nothing() and its
\* execution, table_update.py:136-139: the statement fails when the table or
\* one of the Table's columns is not in the database or a key column is
\* NULL, does nothing when a stored row holds the key, and adds the row
\* otherwise
InsertOnConflictDoNothing(db, name, cols, item) ==
    LET values == CompleteItem(cols, item)
        row == StoredRow(db, name, values)
    IN IF ~db[name].exists \/ ~(DOMAIN values \subseteq ExistingColumns(db, name))
       THEN [error |-> "ProgrammingError", db |-> db]
       ELSE IF \E k \in db[name].pk : row[k] = Null
       THEN [error |-> "IntegrityError", db |-> db]
       ELSE IF Conflicting(db[name], row) # {}
       THEN [error |-> "", db |-> db]
       ELSE [error |-> "", db |-> [db EXCEPT ![name].rows = @ (+) SetToBag({row})]]

VARIABLES
    active,           \* the process slots that run the pipeline
    raw_documents,    \* the raw table: a set of rows
    processed_documents, \* the processed table: a bag of rows
    pc,               \* per slot: where the run is
    df,               \* per slot: the DataFrame of the current batch
    ci,               \* per slot: index into columns_to_clean
    processed_count,  \* per slot: main.py:48
    error_columns,    \* per slot: main.py:49
    run,              \* per slot: number of the invocation
    select_error,     \* per slot: the last select took the handler of main.py:41-43
    failed_now,       \* per slot: columns whose handler ran for the current batch
    appended,         \* per slot: rows this run appended to the processed table
    prev_done,        \* per slot: the previous run ended at main.py:60
    written_ids,      \* the ids of every batch a to_sql call has appended
    writes,           \* per slot: to_sql calls of this run that succeeded
    todo,             \* per slot: unprocessed raw rows when the run began
    schema_file,      \* the table definitions of the YAML file
    live,             \* the database: per table, whether it exists and its columns
    tables,           \* self.tables
    rpc,              \* where create_or_update_table is
    ti,               \* index of the schema of the current iteration
    columns,          \* the columns built for the current schema
    in_tx,            \* a transaction is open on the connection
    raised,           \* the exception that left create_or_update_table
    op_failed,        \* a database operation of this call failed
    reconciles,       \* calls of create_or_update_table so far
    interrupted,      \* a call of create_or_update_table was killed
    upc,              \* where bulk_insert_data is
    utable,           \* its table_name
    udata,            \* its data
    ui,               \* index of the item of the current iteration
    uerr,             \* the exception that left bulk_insert_data
    upserts,          \* calls of bulk_insert_data so far
    s_pc,             \* remove_tags: called or returned
    s_html,           \* its argument
    s_result          \* what it returned

pvars == <<active, raw_documents, processed_documents, pc, df, ci,
           processed_count, error_columns, run, select_error, failed_now,
           appended, prev_done, written_ids, writes, todo>>

rvars == <<schema_file, live, tables, rpc, ti, columns, in_tx, raised,
           op_failed, reconciles, interrupted>>

uvars == <<upc, utable, udata, ui, uerr, upserts>>

svars == <<s_pc, s_html, s_result>>

vars == <<pvars, rvars, uvars, svars>>

NoError == [exc |-> "", line |-> 0]

\* the tables a database may hold before the first reconcile
LiveTables ==
    {NoTable} \cup
    {[exists |-> TRUE, cols |-> S, pk |-> {c[1] : c \in S} \cap {"a"},
      rows |-> EmptyBag] :
        S \in SUBSET {<<"a", <<"Integer", FALSE>>>>, <<"b", <<"Text", FALSE>>>>,
                      <<"b", <<"VARCHAR", FALSE>>>>, <<"c", <<"DateTime", TRUE>>>>,
                      <<"legacy", <<"Text", FALSE>>>>}}

\* a table has one column of a name
WellFormed(t) == \A c1, c2 \in t.cols : c1[1] = c2[1] => c1 = c2

RInit(files, dbs) ==
    /\ schema_file \in files
    /\ live \in dbs
    /\ tables = <<>>
    /\ rpc = "idle"
    /\ ti = 1
    /\ columns = <<>>
    /\ in_tx = FALSE
    /\ raised = NoError
    /\ op_failed = FALSE
    /\ reconciles = 0
    /\ interrupted = FALSE
    /\ upc = "idle"
    /\ utable = ""
    /\ udata = <<>>
    /\ ui = 1
    /\ uerr = ""
    /\ upserts = 0

SInit(inputs) ==
    /\ s_pc = "called"
    /\ s_html \in inputs
    /\ s_result = None

PInit(slots) ==
    /\ active = slots
    /\ \E n \in 0..MaxRows : raw_documents = {RawRow(i) : i \in 1..n}
    /\ processed_documents = EmptyBag
    /\ pc = [w \in Workers |-> "start"]
    /\ df = [w \in Workers |-> {}]
    /\ ci = [w \in Workers |-> 1]
    /\ processed_count = [w \in Workers |-> 0]
    /\ error_columns = [w \in Workers |-> <<>>]
    /\ run = [w \in Workers |-> 1]
    /\ select_error = [w \in Workers |-> FALSE]
    /\ failed_now = [w \in Workers |-> {}]
    /\ appended = [w \in Workers |-> 0]
    /\ prev_done = [w \in Workers |-> FALSE]
    /\ written_ids = {}
    /\ writes = [w \in Workers |-> 0]
    /\ todo = [w \in Workers |-> Cardinality(raw_documents)]

Init ==
    /\ PInit({1})
    /\ RInit({<<>>}, {[t \in TableNames |-> NoTable]})
    /\ SInit({None})

\* main.py:48-50: the counters and connect_with_connector(); an exception
\* goes to the handler of main.py:87-88
Connect(w) ==
    /\ pc[w] = "start"
    /\ \/ pc' = [pc EXCEPT ![w] = "fetch"]
       \/ pc' = [pc EXCEPT ![w] = "failed"]
    /\ UNCHANGED <<active, raw_documents, processed_documents, df, ci,
                   processed_count, error_columns, run, select_error,
                   failed_now, appended, prev_done, written_ids, writes, todo>>

\* main.py:53-60: the select, the count, the test for the empty frame
FetchStep(w, frame, failed) ==
    /\ df' = [df EXCEPT ![w] = frame]
    /\ select_error' = [select_error EXCEPT ![w] = failed]
    /\ processed_count' =
         [processed_count EXCEPT ![w] = CountFetched(processed_count[w], frame)]
    /\ pc' = [pc EXCEPT ![w] = IF frame = {} THEN "done" ELSE "sanitize"]
    /\ ci' = [ci EXCEPT ![w] = 1]
    /\ failed_now' = [failed_now EXCEPT ![w] = {}]

Fetch(w) ==
    /\ pc[w] = "fetch"
    /\ \/ \E B \in download_table_to_df(raw_documents, processed_documents, Limit) :
            FetchStep(w, B, FALSE)
       \/ FetchStep(w, {}, TRUE)
    /\ UNCHANGED <<active, raw_documents, processed_documents, error_columns,
                   run, appended, prev_done, written_ids, writes, todo>>

\* main.py:63-69: one iteration of the column loop
SanitizeColumn(w) ==
    /\ pc[w] = "sanitize"
    /\ LET column == columns_to_clean[ci[w]]
       IN \/ /\ df' = [df EXCEPT ![w] = ApplyColumn(df[w], column)]
             /\ UNCHANGED <<error_columns, failed_now>>
          \/ /\ error_columns' =
                  [error_columns EXCEPT ![w] = ColumnError(error_columns[w], column)]
             /\ failed_now' = [failed_now EXCEPT ![w] = failed_now[w] \cup {column}]
             /\ UNCHANGED df
    /\ IF ci[w] = Len(columns_to_clean)
       THEN pc' = [pc EXCEPT ![w] = "write"] /\ UNCHANGED ci
       ELSE ci' = [ci EXCEPT ![w] = ci[w] + 1] /\ UNCHANGED pc
    /\ UNCHANGED <<active, raw_documents, processed_documents, processed_count,
                   run, select_error, appended, prev_done, written_ids, writes,
                   todo>>

\* main.py:71-84: the append, or its exception and the break
Write(w) ==
    /\ pc[w] = "write"
    /\ \/ /\ processed_documents' = to_sql(processed_documents, df[w])
          /\ appended' = [appended EXCEPT ![w] = appended[w] + Cardinality(df[w])]
          /\ written_ids' = written_ids \cup Ids(df[w])
          /\ writes' = [writes EXCEPT ![w] = writes[w] + 1]
          /\ pc' = [pc EXCEPT ![w] = "fetch"]
       \/ /\ processed_documents' = to_sql_failed(processed_documents, df[w])
          /\ pc' = [pc EXCEPT ![w] = "failed"]
          /\ UNCHANGED <<appended, written_ids, writes>>
    /\ UNCHANGED <<active, raw_documents, df, ci, processed_count, error_columns,
                   run, select_error, failed_now, prev_done, todo>>

\* the process is killed; nothing it holds in memory survives
Crash(w) ==
    /\ pc[w] \in {"start", "fetch", "sanitize", "write"}
    /\ pc' = [pc EXCEPT ![w] = "crashed"]
    /\ UNCHANGED <<active, raw_documents, processed_documents, df, ci,
                   processed_count, error_columns, run, select_error,
                   failed_now, appended, prev_done, written_ids, writes, todo>>

\* the pipeline is invoked again
Restart(w) ==
    /\ pc[w] \in {"done", "failed", "crashed"}
    /\ run[w] < MaxRuns
    /\ run' = [run EXCEPT ![w] = run[w] + 1]
    /\ prev_done' = [prev_done EXCEPT ![w] = (pc[w] = "done")]
    /\ pc' = [pc EXCEPT ![w] = "start"]
    /\ df' = [df EXCEPT ![w] = {}]
    /\ ci' = [ci EXCEPT ![w] = 1]
    /\ processed_count' = [processed_count EXCEPT ![w] = 0]
    /\ error_columns' = [error_columns EXCEPT ![w] = <<>>]
    /\ select_error' = [select_error EXCEPT ![w] = FALSE]
    /\ failed_now' = [failed_now EXCEPT ![w] = {}]
    /\ appended' = [appended EXCEPT ![w] = 0]
    /\ writes' = [writes EXCEPT ![w] = 0]
    /\ todo' = [todo EXCEPT ![w] =
                  Cardinality(Ids(raw_documents) \ Ids(RowsOf(processed_documents)))]
    /\ UNCHANGED <<active, raw_documents, processed_documents, written_ids>>

Next ==
    /\ \E w \in active :
        \/ Connect(w)
        \/ Fetch(w)
        \/ SanitizeColumn(w)
        \/ Write(w)
        \/ Crash(w)
        \/ Restart(w)
    /\ UNCHANGED <<rvars, uvars, svars>>

Spec == Init /\ [][Next]_vars

\* two invocations of the pipeline at once, on the same two tables
InitC ==
    /\ PInit({1, 2})
    /\ Cardinality(raw_documents) <= MaxRowsC
    /\ RInit({<<>>}, {[t \in TableNames |-> NoTable]})
    /\ SInit({None})

SpecC == InitC /\ [][Next]_vars

\* a step of the run of slot w itself
RunStep(w) ==
    /\ \/ Connect(w)
       \/ Fetch(w)
       \/ SanitizeColumn(w)
       \/ Write(w)
    /\ UNCHANGED <<rvars, uvars, svars>>

InitT ==
    /\ Init
    /\ Cardinality(raw_documents) <= MaxRowsT

\* one run of one slot whose process is not killed: the interpreter goes on
\* to the next statement as long as there is one
SpecT == InitT /\ [][RunStep(1)]_vars /\ WF_vars(RunStep(1))

(***************************************************************************)
(* create_or_update_table, table_update.py:65-114.                         *)
(***************************************************************************)
\* the exception leaves the function; leaving the with block closes the
\* connection, which rolls back an open transaction
Raise(exc, line) ==
    /\ rpc' = "raised"
    /\ raised' = [exc |-> exc, line |-> line]
    /\ in_tx' = FALSE

\* table_update.py:69-70: load the schema, enter the loop or return
RStart ==
    /\ rpc = "idle"
    /\ upc = "idle"
    /\ reconciles < MaxReconciles
    /\ reconciles' = reconciles + 1
    /\ ti' = 1
    /\ rpc' = IF schema_file = <<>> THEN "done" ELSE "build"
    /\ UNCHANGED <<schema_file, live, tables, columns, in_tx, raised, op_failed,
                   interrupted>>

\* table_update.py:71-85: build the columns, register the table
RBuild ==
    /\ rpc = "build"
    /\ columns' = BuildColumns(schema_file[ti].columns)
    /\ tables' = Register(tables, schema_file[ti].name,
                          BuildColumns(schema_file[ti].columns))
    /\ rpc' = "begin"
    /\ UNCHANGED <<schema_file, live, ti, in_tx, raised, op_failed, reconciles,
                   interrupted>>

\* table_update.py:86-87: connect and begin
RBegin ==
    /\ rpc = "begin"
    /\ in_tx' = TRUE
    /\ rpc' = "create"
    /\ UNCHANGED <<schema_file, live, tables, ti, columns, raised, op_failed,
                   reconciles, interrupted>>

\* table_update.py:88-94: create and commit, or the handler
RCreate ==
    /\ rpc = "create"
    /\ \/ /\ live' = CreateTable(live, schema_file[ti].name, columns)
          /\ in_tx' = FALSE
          /\ rpc' = "inspect"
          /\ UNCHANGED <<raised, op_failed>>
       \/ /\ op_failed' = TRUE
          /\ IF Bound("exc")
             THEN in_tx' = FALSE /\ rpc' = "inspect" /\ UNCHANGED raised
             ELSE Raise("NameError", 92)
          /\ UNCHANGED live
    /\ UNCHANGED <<schema_file, tables, ti, columns, reconciles, interrupted>>

\* table_update.py:97-114: read the live columns and add the missing ones,
\* then go to the next schema
RUpdateColumns ==
    /\ rpc = "inspect"
    /\ IF Bound("inspect") /\ Bound("DDL") /\ Bound("exc")
       THEN \E added \in SUBSET MissingColumns(live, schema_file[ti].name, columns) :
               /\ live' = AddColumns(live, schema_file[ti].name, columns, added)
               /\ op_failed' =
                    (op_failed \/
                     added # MissingColumns(live, schema_file[ti].name, columns))
               /\ IF ti = Len(schema_file)
                  THEN rpc' = "done" /\ UNCHANGED ti
                  ELSE rpc' = "build" /\ ti' = ti + 1
               /\ UNCHANGED <<raised, in_tx>>
       ELSE /\ Raise("NameError", 98)
            /\ UNCHANGED <<live, op_failed, ti>>
    /\ UNCHANGED <<schema_file, tables, columns, reconciles, interrupted>>

\* the caller has the result and may call again
RReturn ==
    /\ rpc \in {"done", "raised"}
    /\ reconciles < MaxReconciles
    /\ rpc' = "idle"
    /\ raised' = NoError
    /\ op_failed' = FALSE
    /\ UNCHANGED <<schema_file, live, tables, ti, columns, in_tx, reconciles,
                   interrupted>>

\* the process is killed inside create_or_update_table: the open transaction
\* is rolled back, and the next call is on a new TableUpdater
RInterrupt ==
    /\ rpc \in {"build", "begin", "create", "inspect"}
    /\ reconciles < MaxReconciles
    /\ rpc' = "idle"
    /\ tables' = <<>>
    /\ columns' = <<>>
    /\ in_tx' = FALSE
    /\ interrupted' = TRUE
    /\ raised' = NoError
    /\ op_failed' = FALSE
    /\ UNCHANGED <<schema_file, live, ti, reconciles>>

RNext ==
    /\ \/ RStart
       \/ RBuild
       \/ RBegin
       \/ RCreate
       \/ RUpdateColumns
       \/ RReturn
       \/ RInterrupt
    /\ UNCHANGED <<pvars, uvars, svars>>

InitR ==
    /\ PInit({})
    /\ raw_documents = {}
    /\ RInit(Catalogs,
             {db \in [TableNames -> LiveTables] : \A t \in TableNames : WellFormed(db[t])})
    /\ SInit({None})

SpecR == InitR /\ [][RNext]_vars

(***************************************************************************)
(* bulk_insert_data called on the TableUpdater, between the calls of       *)
(* create_or_update_table.                                                 *)
(***************************************************************************)
\* table_update.py:127-131: the test of self.tables, then the loop is entered
UCall(name, data) ==
    /\ upc = "idle"
    /\ rpc \in {"idle", "done", "raised"}
    /\ upserts < MaxUpserts
    /\ upserts' = upserts + 1
    /\ utable' = name
    /\ udata' = data
    /\ ui' = 1
    /\ IF Registered(tables, name)
       THEN upc' = "insert" /\ uerr' = ""
       ELSE upc' = "raised" /\ uerr' = "ValueError"
    /\ UNCHANGED live

\* table_update.py:134-139: one iteration of the loop; every statement is
\* committed on its own (autocommit of Connection.execute)
UInsert ==
    /\ upc = "insert"
    /\ ui <= Len(udata)
    /\ LET out == InsertOnConflictDoNothing(live, utable, tables[utable], udata[ui])
       IN IF out.error # ""
          THEN /\ upc' = "raised"
               /\ uerr' = out.error
               /\ UNCHANGED <<live, ui>>
          ELSE /\ live' = out.db
               /\ ui' = ui + 1
               /\ UNCHANGED <<upc, uerr>>
    /\ UNCHANGED <<utable, udata, upserts>>

\* the call returns, or the caller has its exception
UReturn ==
    /\ \/ upc = "insert" /\ ui > Len(udata)
       \/ upc = "raised"
    /\ upc' = "idle"
    /\ UNCHANGED <<live, utable, udata, ui, uerr, upserts>>

UNext ==
    \/ /\ upc = "idle"
       /\ \/ RStart
          \/ RBuild
          \/ RBegin
          \/ RCreate
          \/ RUpdateColumns
          \/ RReturn
       /\ UNCHANGED <<pvars, uvars, svars>>
    \/ /\ \/ \E name \in TableNames : \E data \in SeqsUpTo(Items, MaxData) :
                UCall(name, data)
          \/ UInsert
          \/ UReturn
       /\ UNCHANGED <<pvars, svars, schema_file, tables, rpc, ti, columns, in_tx,
                      raised, op_failed, reconciles, interrupted>>

\* the databases the upserts start from: docs absent, or present with or
\* without its key and its column c
UpsertTables ==
    {NoTable,
     [exists |-> TRUE, pk |-> {"a"}, rows |-> EmptyBag,
      cols |-> LiveCols(BuildColumns(DocsSpec.columns))],
     [exists |-> TRUE, pk |-> {}, rows |-> EmptyBag,
      cols |-> LiveCols(BuildColumns(DocsSpec.columns))],
     [exists |-> TRUE, pk |-> {"a"}, rows |-> EmptyBag,
      cols |-> LiveCols(BuildColumns(SubSeq(DocsSpec.columns, 1, 2)))]}

InitU ==
    /\ PInit({})
    /\ raw_documents = {}
    /\ RInit({<<DocsSpec>>, <<DocsSpec, ChunksSpec>>},
             {[t \in TableNames |-> IF t = "docs" THEN d ELSE NoTable] :
                 d \in UpsertTables})
    /\ SInit({None})

SpecU == InitU /\ [][UNext]_vars

(***************************************************************************)
(* remove_tags applied to one value.                                       *)
(***************************************************************************)
SApply ==
    /\ s_pc = "called"
    /\ s_result' = remove_tags(s_html)
    /\ s_pc' = "returned"
    /\ UNCHANGED <<s_html, pvars, rvars, uvars>>

InitS ==
    /\ PInit({})
    /\ raw_documents = {}
    /\ RInit({<<>>}, {[t \in TableNames |-> NoTable]})
    /\ SInit(HtmlInputs)

SpecS == InitS /\ [][SApply]_vars

(***************************************************************************)
(* Properties of the batch loop.                                           *)
(***************************************************************************)
Terminal == {"done", "failed"}

\* the raw row a frame row was selected from
OrigRow(id) == CHOOSE r \in raw_documents : r.id = id

Range(f) == {f[i] : i \in DOMAIN f}

\* C1: under a single writer the processed table never holds two rows with
\* the same id, whatever the iterations, re-runs, crashes and restarts.
C1_NoDuplicateIds ==
    /\ \A r \in RowsOf(processed_documents) : CopiesIn(r, processed_documents) = 1
    /\ \A r1, r2 \in RowsOf(processed_documents) : r1.id = r2.id => r1 = r2

\* a later run, after a restart, appended rows next to those of an earlier run
C1_Witness ==
    /\ run[1] >= 2
    /\ appended[1] >= 1
    /\ BagCardinality(processed_documents) > appended[1]

\* C2: a successful select returns at most Limit rows, each a row of the raw
\* table whose id is not in the processed table, and never a row of a batch
\* that an earlier write appended.
C2_SelectBatchCorrect ==
    [][\A w \in active :
         (pc[w] = "fetch" /\ pc'[w] # "crashed" /\ ~select_error'[w]) =>
            /\ Cardinality(df'[w]) <= Limit
            /\ df'[w] \subseteq raw_documents
            /\ Ids(df'[w]) \cap Ids(RowsOf(processed_documents)) = {}
            /\ Ids(df'[w]) \cap written_ids = {}]_vars

\* a full batch was selected after an earlier batch had been written
C2_Witness ==
    /\ pc[1] = "sanitize"
    /\ ci[1] = 1
    /\ Cardinality(df[1]) = Limit
    /\ written_ids # {}

\* C3: a run that follows a run that ended in DONE writes no row: its first
\* select is empty and the processed table stays as it was.
C3_SecondRunWritesNothing ==
    \A w \in active :
        prev_done[w] => appended[w] = 0 /\ pc[w] \notin {"sanitize", "write"}

\* C4: a failed select is fatal: the run ends in FAILED, never in DONE by the
\* empty-batch branch.
C4_SelectFailureIsFatal ==
    \A w \in active : select_error[w] => pc[w] = "failed"

\* C5: when the handler ran for some columns of a batch, the batch still goes
\* to the write and is appended as it is; in every row the failed columns keep
\* the raw value, the other columns hold remove_tags of the raw value, and the
\* failed columns are in error_columns.
C5_PartialFieldFailure ==
    [][\A w \in active :
         /\ (pc[w] = "sanitize" /\ ci[w] = Len(columns_to_clean)) =>
                pc'[w] \in {"write", "crashed"}
         /\ (pc[w] = "write" /\ pc'[w] = "fetch") =>
                /\ processed_documents' = processed_documents (+) SetToBag(df[w])
                /\ failed_now[w] \subseteq Range(error_columns[w])
                /\ \A r \in df[w] : \A c \in Range(columns_to_clean) :
                      r[c] = IF c \in failed_now[w]
                             THEN OrigRow(r.id)[c]
                             ELSE remove_tags(OrigRow(r.id)[c])]_vars

\* a batch in which content failed and abstract_de was sanitized has been
\* written: its content still holds the markup
C5_Witness ==
    /\ pc[1] = "fetch"
    /\ failed_now[1] = {"content"}
    /\ \E r \in RowsOf(processed_documents) :
          /\ r.id = 1
          /\ r.content = RawRow(1).content
          /\ r.abstract_de = Str(<<"Hello", " ", "World">>)

\* C6: a failed write ends the run in FAILED with the processed table as it
\* was, and a run in FAILED neither fetches nor writes again.
C6_WriteFailureAborts ==
    [][\A w \in active :
         /\ (pc[w] = "write" /\ pc'[w] = "failed") =>
                processed_documents' = processed_documents
         /\ (pc[w] = "write" /\ pc'[w] \notin {"failed", "crashed"}) =>
                processed_documents' = processed_documents (+) SetToBag(df[w])
         /\ (pc[w] = "failed" /\ run'[w] = run[w]) =>
                /\ pc'[w] = "failed"
                /\ processed_documents' = processed_documents]_vars

\* the write of a later batch failed after an earlier batch of the run was
\* written
C6_Witness ==
    /\ pc[1] = "failed"
    /\ df[1] # {}
    /\ appended[1] > 0
    /\ Ids(df[1]) \cap Ids(RowsOf(processed_documents)) = {}

\* C7: in DONE and in FAILED the reported count is the number of rows the run
\* appended to the processed table.
C7_ReportedCountIsAppended ==
    \A w \in active : pc[w] \in Terminal => processed_count[w] = appended[w]

(***************************************************************************)
(* Properties of the reconciler.                                           *)
(***************************************************************************)
\* the call of create_or_update_table has ended
Ended == rpc \in {"done", "raised"}

\* C8: no step drops a table or drops or retypes a column: every live column
\* is still there, with its type, after the step.
C8_StrictlyAdditive ==
    [][\A t \in TableNames :
         live[t].exists =>
            /\ live'[t].exists
            /\ live[t].cols \subseteq live'[t].cols
            /\ \A c \in live'[t].cols :
                  c[1] \in ExistingColumns(live, t) => c \in live[t].cols]_vars

\* the create step ran on a table that holds a column the schema does not
\* name and a column whose type differs from the schema's
C8_Witness ==
    /\ rpc = "inspect"
    /\ schema_file[ti].name = "docs"
    /\ <<"legacy", <<"Text", FALSE>>>> \in live["docs"].cols
    /\ <<"b", <<"VARCHAR", FALSE>>>> \in live["docs"].cols

\* C9: a call in which no operation failed returns normally and leaves every
\* table of the schema file with every column the file declares (a table with
\* a and b, declared with a, b and c, ends with a, b and c).
C9_ReconcileAddsMissing ==
    (Ended /\ ~op_failed) =>
        /\ rpc = "done"
        /\ \A i \in DOMAIN schema_file :
              /\ live[schema_file[i].name].exists
              /\ ColNames(schema_file[i].columns) \subseteq
                    ExistingColumns(live, schema_file[i].name)

\* C10: after a failed create-table or add-column the call goes on: it does
\* not end with an exception, and no transaction stays open.
C10_FailureDoesNotStop ==
    op_failed => (rpc # "raised" /\ ~in_tx)

(***************************************************************************)
(* Properties of bulk_insert_data.                                         *)
(***************************************************************************)
\* the item of the current iteration, as the database would store it
CurrentRow == StoredRow(live, utable, CompleteItem(tables[utable], udata[ui]))

\* the statement of the current iteration can run: the table and the Table's
\* columns are in the database
Runnable ==
    /\ live[utable].exists
    /\ ColNames(tables[utable]) \subseteq ExistingColumns(live, utable)

\* C11: in a table with a key, an insert of a row whose key is already stored
\* succeeds and leaves the table as it is, so the table never holds two rows
\* with one key, whether the two inserts come in one call or in two.
C11_UpsertIdempotent ==
    [][/\ \A t \in TableNames :
            live'[t].pk # {} =>
                \A r1, r2 \in BagToSet(live'[t].rows) :
                    /\ CopiesIn(r1, live'[t].rows) = 1
                    /\ (\A k \in live'[t].pk : r1[k] = r2[k]) => r1 = r2
       /\ (upc = "insert" /\ ui <= Len(udata) /\ upc' # "idle" /\ Runnable
           /\ Conflicting(live[utable], CurrentRow) # {}) =>
                /\ live' = live
                /\ upc' = "insert"
                /\ ui' = ui + 1]_vars

\* the key 1 was inserted with b = x, then again with b = y, and the stored
\* row still holds x
C11_Witness ==
    /\ upc = "insert"
    /\ ui = 3
    /\ udata = <<[a |-> "1", b |-> "x"], [a |-> "1", b |-> "y"]>>
    /\ live["docs"].pk = {"a"}
    /\ BagCardinality(live["docs"].rows) = 1
    /\ \E r \in BagToSet(live["docs"].rows) : r["a"] = "1" /\ r["b"] = "x"

\* C12: bulk_insert_data on a table name that is not in self.tables raises the
\* ValueError of table_update.py:128 and writes nothing, whatever the rows.
C12_UnknownTableRaises ==
    [][(upc = "idle" /\ upc' # "idle" /\ utable' \notin DOMAIN tables) =>
            /\ upc' = "raised"
            /\ uerr' = "ValueError"
            /\ live' = live]_vars

\* chunks, which no call registered, was passed with rows while another table
\* is registered
C12_Witness ==
    /\ upc = "raised"
    /\ uerr = "ValueError"
    /\ utable = "chunks"
    /\ udata # <<>>
    /\ "docs" \in DOMAIN tables

\* C20: the table of the schema under work is in self.tables from line 85 on,
\* also after its create failed; bulk_insert_data on it passes the test of
\* line 127 and runs its inserts.
C20_RegisteredBeforeCreate ==
    [][/\ rpc' \in {"begin", "create", "inspect", "raised"} =>
            schema_file'[ti'].name \in DOMAIN tables'
       /\ (upc = "idle" /\ upc' # "idle" /\ rpc = "raised" /\ raised.line = 92
           /\ utable' = schema_file[ti].name) =>
            /\ upc' = "insert"
            /\ uerr' = ""]_vars

\* the create of docs failed, docs is not in the database, and an insert
\* into docs was attempted and failed in the database
C20_Witness ==
    /\ rpc = "raised"
    /\ raised.line = 92
    /\ utable = "docs"
    /\ ~live["docs"].exists
    /\ upc = "raised"
    /\ uerr = "ProgrammingError"

(***************************************************************************)
(* Further properties.                                                     *)
(***************************************************************************)
\* C13: remove_tags never raises and never returns None; for None it returns
\* the empty string, and for a value the parser raises on it returns the value.
C13_SanitizeNeverRaises ==
    s_pc = "returned" =>
        /\ s_result.k \notin {"raised", "none"}
        /\ s_html = None => s_result = Str(<<>>)
        /\ s_html.k = "obj" => s_result = s_html
        /\ s_html.k = "str" => s_result.k = "str"

\* the parser raised on a value that is not text and the value came back
C13_Witness ==
    /\ s_pc = "returned"
    /\ s_html = NonText
    /\ s_result = NonText

\* C14: with two slots, a write appends every row of its frame also when the
\* other slot has stored a row of that id in the meantime: nothing keeps a row
\* that both slots selected from being written twice.
C14_WriteIsUnconditional ==
    [][\A w \in active :
         (pc[w] = "write" /\ pc'[w] = "fetch") =>
            \A r \in df[w] :
                CopiesIn(r, processed_documents') =
                    CopiesIn(r, processed_documents) + 1]_vars

\* both slots, each in its first run, selected row 1 and both wrote it
C14_Witness ==
    /\ run[1] = 1
    /\ run[2] = 1
    /\ appended[1] >= 1
    /\ appended[2] >= 1
    /\ \E r1, r2 \in RowsOf(processed_documents) :
          /\ r1.id = r2.id
          /\ (r1 # r2 \/ CopiesIn(r1, processed_documents) >= 2)

Ceil(n, d) == (n + d - 1) \div d

\* C15: every run that is not killed ends in DONE or FAILED; every write adds
\* an id to the processed table; a run without a failure that began with N
\* unprocessed rows ends in DONE after exactly Ceil(N, Limit) writes.
C15_LoopTerminates ==
    /\ [](pc[1] = "start" => <>(pc[1] \in Terminal))
    /\ [](pc[1] = "done" /\ ~select_error[1] => writes[1] = Ceil(todo[1], Limit))
    /\ [][(pc[1] = "write" /\ pc'[1] = "fetch") =>
            /\ Ids(RowsOf(processed_documents)) \subseteq
                   Ids(RowsOf(processed_documents'))
            /\ Ids(RowsOf(processed_documents')) #
                   Ids(RowsOf(processed_documents))]_vars

\* a run of more than one batch ended in DONE with a last batch that was not
\* full
C15_Witness ==
    /\ pc[1] = "done"
    /\ ~select_error[1]
    /\ todo[1] = Limit + 1
    /\ writes[1] = 2

\* C16: in DONE every id of the raw table is in the processed table.
C16_DoneMeansAllProcessed ==
    \A w \in active :
        pc[w] = "done" =>
            Ids(raw_documents) \subseteq Ids(RowsOf(processed_documents))

\* C17: a call that follows a killed call and in which no operation fails
\* returns normally and leaves every table of the schema file with every
\* declared column, as a call that was never killed is meant to.
C17_RerunCompletes ==
    (interrupted /\ Ended /\ ~op_failed) =>
        /\ rpc = "done"
        /\ \A i \in DOMAIN schema_file :
              ColNames(schema_file[i].columns) \subseteq
                  ExistingColumns(live, schema_file[i].name)

\* C18: every built column has the primary-key flag and the foreign key of
\* its definition.
C18_ModifiersKept ==
    rpc \in {"begin", "create", "inspect"} =>
        \A i \in DOMAIN columns :
            /\ columns[i].primary_key = schema_file[ti].columns[i].primary_key
            /\ columns[i].foreign_key = schema_file[ti].columns[i].foreign_key

\* C19: no step changes the raw table; no step removes a row of the processed
\* table, and no step stores, for an id that is there, a row with other
\* values.
C19_OnlyAppends ==
    [][/\ raw_documents' = raw_documents
       /\ \A r \in RowsOf(processed_documents) :
             CopiesIn(r, processed_documents') >= CopiesIn(r, processed_documents)
       /\ \A r \in RowsOf(processed_documents) :
             \A q \in RowsOf(processed_documents') : q.id = r.id => q = r]_vars

\* a second batch was appended next to the first
C19_Witness ==
    /\ pc[1] = "fetch"
    /\ writes[1] = 1
    /\ BagCardinality(processed_documents) > appended[1]
    /\ appended[1] >= 1

====
